---- MODULE Spec2Model ----
(***************************************************************************)
(* SignAlexNet (python/fate_llm/model_zoo/ipr/alexnet.py): a modified      *)
(* AlexNet whose layers 4, 5 and 6 are signature-carrying convolutions.    *)
(*                                                                         *)
(* The model follows one caller thread that constructs a model object      *)
(* (__init__, one loop iteration per step), toggles its training flag,     *)
(* updates its numeric parameters, picks an input batch and calls forward  *)
(* (one statement per step).  Tensors are [shape, val]: the shape is exact,*)
(* val holds one row per example.  Feature maps carry one opaque summary   *)
(* value per example; the classifier turns it into one score per class.    *)
(***************************************************************************)
EXTENDS Integers, Sequences, FiniteSets, TLC

VARIABLES
    pc,           \* position of the caller: "construct", "ready", "features",
                  \* "classify", "return", "KeyError"
    num_classes,  \* argument of __init__
    layeridx,     \* __init__ loop variable
    layers,       \* __init__ local list
    inp,          \* __init__ running input-channel count
    features,     \* self.features (<<>> until assigned)
    classifier,   \* self.classifier (<<>> until assigned, then <<record>>)
    training,     \* self.training, the ambient mode flag
    params,       \* version of the learnable parameters (external trainer)
    prev,         \* the model object constructed before this one, if any
    input,        \* the batch the caller passes to forward
    x,            \* forward's local tensor
    fi,           \* forward's position in self.features
    steps,        \* operations applied by the current / last forward call
    out,          \* value returned by the last forward call, if any
    err,          \* exception raised by the last forward call, if any
    results       \* outputs obtained for the current input and parameters,
                  \* per mode

vars == <<pc, num_classes, layeridx, layers, inp, features, classifier,
          training, params, prev, input, x, fi, steps, out, err, results>>

---------------------------------------------------------------------------
\* Bounds of the model.
MaxClasses == 2
MaxBatch == 2
MaxData == 1
MaxParam == 1

\* Channel counts and spatial sizes the caller may pass.
Channels == {1, 3}
Sizes == {<<32, 32>>, <<33, 33>>, <<39, 32>>, <<64, 16>>, <<64, 64>>,
          <<16, 16>>, <<32, 1>>, <<2, 32>>, <<4, 4>>}

None == <<>>
Some(v) == <<v>>

---------------------------------------------------------------------------
\* __init__: the fixed tables.
in_channels == 3

maxpoolidx == {1, 3, 7}

\* Faulty variant: the signed positions shifted by one.
signed_layer_shifted == {3, 4, 5}

signed_layer == {4, 5, 6}

NumLayers == 8

\* Faulty variant: the last entry of the table is missing.
oups_short == (0 :> 64) @@ (2 :> 192) @@ (4 :> 384) @@ (5 :> 256)

oups == (0 :> 64) @@ (2 :> 192) @@ (4 :> 384) @@ (5 :> 256) @@ (6 :> 256)

\* Faulty variant: position 2 padded by 1 instead of 2.
kp_pad == (0 :> <<5, 2>>) @@ (2 :> <<5, 1>>) @@ (4 :> <<3, 1>>) @@
          (5 :> <<3, 1>>) @@ (6 :> <<3, 1>>)

kp == (0 :> <<5, 2>>) @@ (2 :> <<5, 2>>) @@ (4 :> <<3, 1>>) @@
      (5 :> <<3, 1>>) @@ (6 :> <<3, 1>>)

\* nn.MaxPool2d(2, 2)
MaxPool2d(kernel, stride) ==
    [role |-> "MaxPool", inp |-> 0, oup |-> 0, k |-> kernel, s |-> stride, p |-> 0]

\* SignatureConv(inp, oup, k, 1, p)
SignatureConv(i, o, ks, st, pd) ==
    [role |-> "SignatureConv", inp |-> i, oup |-> o, k |-> ks, s |-> st, p |-> pd]

\* ConvBlock(inp, oup, k, 1, p)
ConvBlock(i, o, ks, st, pd) ==
    [role |-> "ConvBlock", inp |-> i, oup |-> o, k |-> ks, s |-> st, p |-> pd]

\* The layer one loop iteration appends (the key lookups have succeeded).
MakeLayer(idx, chan) ==
    IF idx \in maxpoolidx
    THEN MaxPool2d(2, 2)
    ELSE IF idx \in signed_layer
         THEN SignatureConv(chan, oups[idx], kp[idx][1], 1, kp[idx][2])
         ELSE ConvBlock(chan, oups[idx], kp[idx][1], 1, kp[idx][2])

\* Faulty variant: the running channel count is never updated.
NextInp_stale(idx, chan) == chan

\* The running channel count after one loop iteration.
NextInp(idx, chan) == IF idx \in maxpoolidx THEN chan ELSE oups[idx]

\* A dict lookup that would raise KeyError in this iteration.
MissingKey(idx) ==
    /\ idx \notin maxpoolidx
    /\ (idx \notin DOMAIN kp \/ idx \notin DOMAIN oups)

\* Faulty variants: a hard-coded class count; a 2 x 2 final map assumed.
Linear_fixed(n) == [in_features |-> 4 * 4 * 256, out_features |-> 2]

Linear_small(n) == [in_features |-> 2 * 2 * 256, out_features |-> n]

\* nn.Linear(4 * 4 * 256, num_classes)
Linear(n) == [in_features |-> 4 * 4 * 256, out_features |-> n]

---------------------------------------------------------------------------
\* Tensors.
NoTensor == [shape |-> <<>>, val |-> <<>>]

\* The batch (B, C, H, W) with content d: example b carries summary d + b - 1.
InputTensor(b, c, hw, d) ==
    [shape |-> <<b, c, hw[1], hw[2]>>, val |-> [e \in 1..b |-> <<d + e - 1>>]]

Inputs ==
    {InputTensor(b, c, hw, d) :
        b \in 1..MaxBatch, c \in Channels, hw \in Sizes, d \in 0..MaxData}

\* Output size of a convolution / pooling window along one spatial axis.
WindowOut(h, k, s, p) == ((h + 2 * p - k) \div s) + 1

\* A convolutional block rejects a wrong channel count and an input smaller
\* than its kernel.
ConvFails(m, t) ==
    \/ t.shape[2] # m.inp
    \/ t.shape[3] + 2 * m.p < m.k
    \/ t.shape[4] + 2 * m.p < m.k

ConvForward(m, t) ==
    [shape |-> <<t.shape[1], m.oup,
                 WindowOut(t.shape[3], m.k, m.s, m.p),
                 WindowOut(t.shape[4], m.k, m.s, m.p)>>,
     val |-> t.val]

\* Pooling rejects an input whose output would be empty.
PoolFails(m, t) ==
    \/ WindowOut(t.shape[3], m.k, m.s, m.p) < 1
    \/ WindowOut(t.shape[4], m.k, m.s, m.p) < 1

PoolForward(m, t) ==
    [shape |-> <<t.shape[1], t.shape[2],
                 WindowOut(t.shape[3], m.k, m.s, m.p),
                 WindowOut(t.shape[4], m.k, m.s, m.p)>>,
     val |-> t.val]

\* m(x): None when the stage raises.
StageFails(m, t) ==
    IF m.role = "MaxPool" THEN PoolFails(m, t) ELSE ConvFails(m, t)

StageForward(m, t) ==
    IF m.role = "MaxPool" THEN PoolForward(m, t) ELSE ConvForward(m, t)

\* x.view(x.size(0), -1)
View(t) ==
    [shape |-> <<t.shape[1], t.shape[2] * t.shape[3] * t.shape[4]>>,
     val |-> t.val]

\* The classifier's parameters at version v, for class c.
Weight(v, c) == ((c + v) % 3) - 1

Bias(v, c) == (c * v) % 2

LinearFails(l, t) == t.shape[2] # l.in_features

LinearForward(l, v, t) ==
    [shape |-> <<t.shape[1], l.out_features>>,
     val |-> [e \in 1..t.shape[1] |->
                [c \in 1..l.out_features |-> Weight(v, c) * t.val[e][1] + Bias(v, c)]]]

---------------------------------------------------------------------------
\* softmax in fixed point: One stands for 1.0, ExpTable[k + 1] for exp(-k).
One == 10000

ExpTable == <<10000, 3679, 1353, 498, 183, 67, 25, 9, 3, 1>>

Exp(d) == IF 1 - d <= Len(ExpTable) THEN ExpTable[1 - d] ELSE 0

RECURSIVE Sum(_)
Sum(v) == IF v = <<>> THEN 0 ELSE Head(v) + Sum(Tail(v))

Max(v) == CHOOSE a \in {v[i] : i \in DOMAIN v} : \A i \in DOMAIN v : v[i] <= a

SoftmaxVec(v) ==
    LET m == Max(v)
        e == [i \in DOMAIN v |-> Exp(v[i] - m)]
        s == Sum(e)
    IN  [i \in DOMAIN v |-> (e[i] * One) \div s]

Column(t, c) == [e \in 1..t.shape[1] |-> t.val[e][c]]

\* nn.functional.softmax(x, dim) of a 2-dimensional tensor.
Softmax(t, dim) ==
    IF dim = 1
    THEN [t EXCEPT !.val = [e \in 1..t.shape[1] |-> SoftmaxVec(t.val[e])]]
    ELSE [t EXCEPT !.val = [e \in 1..t.shape[1] |->
                              [c \in 1..t.shape[2] |-> SoftmaxVec(Column(t, c))[e]]]]

---------------------------------------------------------------------------
\* forward: helpers.
StageNames == <<"features.0", "features.1", "features.2", "features.3",
                "features.4", "features.5", "features.6", "features.7">>

\* Faulty variant: the pipeline is walked backwards.
StageIndex_rev(i) == NumLayers - i

\* The 1-based position of the stage the loop visits in its iteration i.
StageIndex(i) == i + 1

\* Faulty variants: the branches swapped; softmax along the batch dimension.
ReturnValue_swapped(mode, t) == IF mode THEN Softmax(t, 1) ELSE t

ReturnValue_dim0(mode, t) == IF mode THEN t ELSE Softmax(t, 0)

\* What forward returns for the classifier output t.
ReturnValue(mode, t) == IF mode THEN t ELSE Softmax(t, 1)

ReturnSteps(mode) == IF mode THEN <<>> ELSE <<"softmax">>

NoResults == [train |-> None, eval |-> None]

Record(res, mode, t) ==
    IF mode THEN [res EXCEPT !.train = Some(t)] ELSE [res EXCEPT !.eval = Some(t)]

Failure(at) == Some([at |-> at, kind |-> "RuntimeError"])

---------------------------------------------------------------------------
Init ==
    /\ pc = "construct"
    /\ num_classes \in 1..MaxClasses
    /\ layeridx = 0
    /\ layers = <<>>
    /\ inp = in_channels
    /\ features = <<>>
    /\ classifier = None
    /\ training = TRUE
    /\ params = 0
    /\ prev = None
    /\ input = InputTensor(1, in_channels, <<32, 32>>, 0)
    /\ x = NoTensor
    /\ fi = 0
    /\ steps = <<>>
    /\ out = None
    /\ err = None
    /\ results = NoResults

\* __init__, one iteration of "for layeridx in range(8)".
ConstructStep ==
    /\ pc = "construct"
    /\ layeridx < NumLayers
    /\ IF MissingKey(layeridx)
       THEN /\ pc' = "KeyError"
            /\ UNCHANGED <<layeridx, layers, inp>>
       ELSE /\ layers' = Append(layers, MakeLayer(layeridx, inp))
            /\ inp' = NextInp(layeridx, inp)
            /\ layeridx' = layeridx + 1
            /\ pc' = pc
    /\ UNCHANGED <<num_classes, features, classifier, training, params, prev,
                   input, x, fi, steps, out, err, results>>

\* __init__, after the loop: self.features and self.classifier.
ConstructFinish ==
    /\ pc = "construct"
    /\ layeridx = NumLayers
    /\ features' = layers
    /\ classifier' = Some(Linear(num_classes))
    /\ pc' = "ready"
    /\ UNCHANGED <<num_classes, layeridx, layers, inp, training, params, prev,
                   input, x, fi, steps, out, err, results>>

\* The caller constructs another model and keeps the old one aside.
NewModel ==
    /\ pc = "ready"
    /\ prev' = Some([num_classes |-> num_classes, features |-> features,
                     classifier |-> classifier])
    /\ num_classes' \in 1..MaxClasses
    /\ pc' = "construct"
    /\ layeridx' = 0
    /\ layers' = <<>>
    /\ inp' = in_channels
    /\ features' = <<>>
    /\ classifier' = None
    /\ training' = TRUE
    /\ params' = 0
    /\ steps' = <<>>
    /\ out' = None
    /\ err' = None
    /\ results' = NoResults
    /\ UNCHANGED <<input, x, fi>>

\* model.train() / model.eval() by the caller.
SetMode ==
    /\ pc = "ready"
    /\ training' = ~training
    /\ UNCHANGED <<pc, num_classes, layeridx, layers, inp, features, classifier,
                   params, prev, input, x, fi, steps, out, err, results>>

\* The external training procedure updates the numeric parameters.
UpdateParams ==
    /\ pc = "ready"
    /\ params' \in (0..MaxParam) \ {params}
    /\ steps' = <<>>
    /\ out' = None
    /\ err' = None
    /\ results' = NoResults
    /\ UNCHANGED <<pc, num_classes, layeridx, layers, inp, features, classifier,
                   training, prev, input, x, fi>>

\* The caller takes another batch.
ChooseInput ==
    /\ pc = "ready"
    /\ input' \in Inputs \ {input}
    /\ steps' = <<>>
    /\ out' = None
    /\ err' = None
    /\ results' = NoResults
    /\ UNCHANGED <<pc, num_classes, layeridx, layers, inp, features, classifier,
                   training, params, prev, x, fi>>

\* forward(x) is entered.
CallForward ==
    /\ pc = "ready"
    /\ pc' = "features"
    /\ x' = input
    /\ fi' = 0
    /\ steps' = <<>>
    /\ out' = None
    /\ err' = None
    /\ UNCHANGED <<num_classes, layeridx, layers, inp, features, classifier,
                   training, params, prev, input, results>>

\* forward: one iteration of "for m in self.features: x = m(x)".
FeatureStep ==
    /\ pc = "features"
    /\ fi < Len(features)
    /\ steps' = Append(steps, StageNames[StageIndex(fi)])
    /\ IF StageFails(features[StageIndex(fi)], x)
       THEN /\ err' = Failure(StageNames[StageIndex(fi)])
            /\ pc' = "ready"
            /\ x' = NoTensor
            /\ fi' = 0
       ELSE /\ x' = StageForward(features[StageIndex(fi)], x)
            /\ fi' = fi + 1
            /\ UNCHANGED <<pc, err>>
    /\ UNCHANGED <<num_classes, layeridx, layers, inp, features, classifier,
                   training, params, prev, input, out, results>>

\* forward: x = x.view(x.size(0), -1)
Flatten ==
    /\ pc = "features"
    /\ fi = Len(features)
    /\ x' = View(x)
    /\ steps' = Append(steps, "view")
    /\ pc' = "classify"
    /\ UNCHANGED <<num_classes, layeridx, layers, inp, features, classifier,
                   training, params, prev, input, fi, out, err, results>>

\* forward: x = self.classifier(x)
Classify ==
    /\ pc = "classify"
    /\ steps' = Append(steps, "classifier")
    /\ IF LinearFails(classifier[1], x)
       THEN /\ err' = Failure("classifier")
            /\ pc' = "ready"
            /\ x' = NoTensor
            /\ fi' = 0
       ELSE /\ x' = LinearForward(classifier[1], params, x)
            /\ pc' = "return"
            /\ UNCHANGED <<fi, err>>
    /\ UNCHANGED <<num_classes, layeridx, layers, inp, features, classifier,
                   training, params, prev, input, out, results>>

\* Faulty variant: forward leaves the model in evaluation mode.
Return_setsEval ==
    /\ pc = "return"
    /\ out' = Some(ReturnValue(training, x))
    /\ steps' = steps \o ReturnSteps(training)
    /\ results' = Record(results, training, ReturnValue(training, x))
    /\ training' = FALSE
    /\ pc' = "ready"
    /\ x' = NoTensor
    /\ fi' = 0
    /\ UNCHANGED <<num_classes, layeridx, layers, inp, features, classifier,
                   params, prev, input, err>>

\* forward: return x, or softmax(x, dim=1) outside training.
Return ==
    /\ pc = "return"
    /\ out' = Some(ReturnValue(training, x))
    /\ steps' = steps \o ReturnSteps(training)
    /\ results' = Record(results, training, ReturnValue(training, x))
    /\ pc' = "ready"
    /\ x' = NoTensor
    /\ fi' = 0
    /\ UNCHANGED <<num_classes, layeridx, layers, inp, features, classifier,
                   training, params, prev, input, err>>

Next ==
    \/ ConstructStep
    \/ ConstructFinish
    \/ NewModel
    \/ SetMode
    \/ UpdateParams
    \/ ChooseInput
    \/ CallForward
    \/ FeatureStep
    \/ Flatten
    \/ Classify
    \/ Return

Spec == Init /\ [][Next]_vars

---------------------------------------------------------------------------
\* Shorthands of the properties.
Constructed == pc \notin {"construct", "KeyError"}

CallOver == pc = "ready" /\ (out # None \/ err # None)

IsConv(l) == l.role # "MaxPool"

\* The output-channel count of the last convolutional stage among the first
\* n stages of fs, 3 when there is none.
RECURSIVE RunningChannels(_, _)
RunningChannels(fs, n) ==
    IF n = 0 THEN 3
    ELSE IF IsConv(fs[n]) THEN fs[n].oup ELSE RunningChannels(fs, n - 1)

ChainOk(fs) ==
    \A i \in 1..Len(fs) : IsConv(fs[i]) => fs[i].inp = RunningChannels(fs, i - 1)

FullPass == <<"features.0", "features.1", "features.2", "features.3",
              "features.4", "features.5", "features.6", "features.7",
              "view", "classifier">>

\* C1: once constructed, for every num_classes, the feature pipeline has
\* exactly 8 stages; positions 1, 3, 7 are MaxPool, 4, 5, 6 are SignatureConv
\* and 0, 2 are ConvBlock.
C1_PipelineRoles ==
    Constructed =>
        /\ Len(features) = 8
        /\ \A i \in 0..7 :
              features[i + 1].role =
                  IF i \in {1, 3, 7} THEN "MaxPool"
                  ELSE IF i \in {4, 5, 6} THEN "SignatureConv"
                  ELSE "ConvBlock"

C1_Witness ==
    /\ pc = "ready"
    /\ num_classes = 2
    /\ Len(features) = 8
    /\ features[5].role = "SignatureConv"
    /\ features[8].role = "MaxPool"

\* C2: position 0 takes 3 input channels; every later convolutional stage
\* takes the output-channel count of the most recent convolutional stage
\* before it, pooling leaving the count unchanged; positions 2, 4, 5, 6 take
\* 64, 192, 384, 256.
C2_ChannelChaining ==
    /\ ChainOk(layers)
    /\ Constructed =>
        /\ ChainOk(features)
        /\ features[1].inp = 3
        /\ features[3].inp = 64
        /\ features[5].inp = 192
        /\ features[6].inp = 384
        /\ features[7].inp = 256

C2_Witness ==
    /\ pc = "ready"
    /\ features[5].inp = features[3].oup
    /\ features[5].inp = 192
    /\ features[7].inp = 256

\* C3: the classifier is one linear stage of input width 4096 and output
\* width num_classes; two models constructed with different num_classes have
\* the same feature pipeline and differ only in the classifier's output width.
C3_ClassifierWidth ==
    Constructed =>
        /\ classifier = <<[in_features |-> 4096, out_features |-> num_classes]>>
        /\ prev # None =>
              /\ prev[1].features = features
              /\ prev[1].classifier =
                    <<[in_features |-> 4096, out_features |-> prev[1].num_classes]>>

C3_Witness ==
    /\ pc = "ready"
    /\ prev # None
    /\ prev[1].num_classes # num_classes
    /\ prev[1].features = features
    /\ classifier[1].out_features # prev[1].classifier[1].out_features

\* The shape after each of the 8 stages for a (B, 3, 32, 32) batch.
ShapeAfter(b) ==
    << <<b, 64, 32, 32>>, <<b, 64, 16, 16>>, <<b, 192, 16, 16>>,
       <<b, 192, 8, 8>>, <<b, 384, 8, 8>>, <<b, 256, 8, 8>>,
       <<b, 256, 8, 8>>, <<b, 256, 4, 4>> >>

\* C4: for a batch of shape (B, 3, 32, 32) forward succeeds and returns a
\* tensor of shape (B, num_classes); the stride-1 convolutions keep height
\* and width, the three pools halve them, the final feature map has shape
\* (B, 256, 4, 4) and its flattened width 4096 is the classifier's input width.
C4_ShapeThreading ==
    (input.shape[2] = 3 /\ input.shape[3] = 32 /\ input.shape[4] = 32) =>
        LET b == input.shape[1] IN
        /\ (pc = "features" /\ fi > 0) => x.shape = ShapeAfter(b)[fi]
        /\ pc = "classify" =>
              /\ x.shape = <<b, 4096>>
              /\ x.shape[2] = classifier[1].in_features
        /\ pc = "return" => x.shape = <<b, num_classes>>
        /\ CallOver =>
              /\ err = None
              /\ out # None
              /\ out[1].shape = <<b, num_classes>>

C4_Witness ==
    /\ pc = "ready"
    /\ input.shape = <<2, 3, 32, 32>>
    /\ out # None
    /\ out[1].shape = <<2, num_classes>>
    /\ err = None

\* C5: for the same model, input and parameters, the training-mode call
\* returns the raw classifier scores and the evaluation-mode call returns
\* softmax of those scores along dimension 1.
C5_EvalIsSoftmaxOfTrain ==
    /\ results.train # None =>
          \A e \in 1..input.shape[1] : \A c \in 1..num_classes :
              results.train[1].val[e][c] =
                  Weight(params, c) * input.val[e][1] + Bias(params, c)
    /\ (results.train # None /\ results.eval # None) =>
          results.eval[1] = Softmax(results.train[1], 1)

C5_Witness ==
    /\ results.train # None
    /\ results.eval # None
    /\ results.eval[1] # results.train[1]
    /\ num_classes = 2
    /\ results.train[1].val[1][1] # results.train[1].val[1][2]

Normalized(row) ==
    /\ \A i \in DOMAIN row : row[i] >= 0
    /\ Sum(row) <= One
    /\ Sum(row) > One - Len(row)

\* C6: in evaluation mode every entry of the output is non-negative and
\* every row sums to 1 up to rounding; training-mode outputs are not
\* constrained in this way.
C6_EvalRowsNormalized ==
    /\ results.eval # None =>
          \A e \in 1..input.shape[1] : Normalized(results.eval[1].val[e])
    /\ (pc = "ready" /\ out # None /\ "softmax" \in {steps[i] : i \in DOMAIN steps}) =>
          \A e \in 1..input.shape[1] : Normalized(out[1].val[e])

C6_Witness ==
    /\ results.eval # None
    /\ results.train # None
    /\ input.shape[1] = 2
    /\ num_classes = 2
    /\ \A e \in 1..2 : Normalized(results.eval[1].val[e])
    /\ \E e \in 1..2 : \E c \in 1..2 : results.train[1].val[e][c] < 0
    /\ \E e \in 1..2 : ~Normalized(results.train[1].val[e])

\* C7: a forward call applies the stages 0..7 in index order, each once,
\* then the flatten, then the classifier, and then softmax exactly when the
\* model is in evaluation mode, whatever the input values.
C7_StepOrder ==
    /\ [](/\ pc = "features" =>
                /\ fi <= 8
                /\ steps = SubSeq(FullPass, 1, fi)
          /\ pc = "classify" => steps = SubSeq(FullPass, 1, 9)
          /\ pc = "return" => steps = FullPass
          /\ (pc = "ready" /\ err # None) =>
                \E n \in 1..10 : steps = SubSeq(FullPass, 1, n)
          /\ (pc = "ready" /\ out # None) =>
                steps \in {FullPass, FullPass \o <<"softmax">>})
    /\ [][(pc = "return" /\ pc' = "ready") =>
             steps' = IF training THEN FullPass ELSE FullPass \o <<"softmax">>]_vars

C7_Witness ==
    /\ pc = "ready"
    /\ out # None
    /\ ~training
    /\ steps = FullPass \o <<"softmax">>
    /\ input.val[1][1] # 0

\* C8: once constructed, forward calls and mode toggles leave the feature
\* pipeline and the classifier's widths unchanged, and a forward call never
\* changes the mode flag.
C8_PipelineFrame ==
    [][(Constructed /\ pc' # "construct") =>
          /\ features' = features
          /\ classifier' = classifier
          /\ (pc # "ready" \/ pc' # "ready") => training' = training]_vars

C8_Witness ==
    /\ pc = "ready"
    /\ out # None
    /\ results.train # None
    /\ results.eval # None
    /\ ~training
    /\ Len(features) = 8
    /\ classifier[1].out_features = num_classes

\* The stage at which a call on batch t stops, "none" when it returns.
FailsAt(t) ==
    LET c == t.shape[2]
        h == t.shape[3]
        w == t.shape[4]
    IN  IF c # 3 THEN "features.0"
        ELSE IF h < 2 \/ w < 2 THEN "features.1"
        ELSE IF h < 4 \/ w < 4 THEN "features.3"
        ELSE IF h < 8 \/ w < 8 THEN "features.7"
        ELSE IF (h \div 8) * (w \div 8) # 16 THEN "classifier"
        ELSE "none"

\* The input has a wrong channel count, or a resolution that does not lead to
\* a 4 x 4 final feature map.
WrongInput(t) ==
    \/ t.shape[2] # 3
    \/ <<t.shape[3] \div 8, t.shape[4] \div 8>> # <<4, 4>>

\* C9 as stated: a call whose input has a wrong channel count or a wrong
\* spatial resolution fails: no output is returned and the failure of the
\* mismatched stage reaches the caller.
C9_WrongInputFails ==
    (CallOver /\ WrongInput(input)) => (err # None /\ out = None)

\* C9, amended: a call fails exactly when the channel count is not 3 (at stage
\* 0), a pooling stage would produce an empty map (height or width below 2, 4,
\* 8: at stage 1, 3, 7), or the final map does not hold 16 positions per channel
\* (at the classifier); it then stops at that stage, runs nothing after it,
\* runs nothing twice, returns no output and hands the primitive's failure to
\* the caller.
C9_FailsAtFirstMismatch ==
    CallOver =>
        /\ (err = None) <=> (FailsAt(input) = "none")
        /\ (err = None) <=> (out # None)
        /\ err # None =>
              /\ err[1].at = FailsAt(input)
              /\ err[1].kind = "RuntimeError"
              /\ steps[Len(steps)] = err[1].at
              /\ \E n \in 1..10 : steps = SubSeq(FullPass, 1, n)
              /\ out = None
              /\ x = NoTensor

C9_Witness ==
    /\ pc = "ready"
    /\ err # None
    /\ err[1].at = "classifier"
    /\ input.shape[2] = 3
    /\ input.shape[3] = 64
    /\ input.shape[4] = 64
    /\ out = None

\* C10: every non-pooling position of 0..7 has an entry in both tables, so
\* the construction loop runs its 8 iterations without a missing key; every
\* convolutional stage has stride 1, positions 0 and 2 kernel 5 and padding 2,
\* positions 4, 5, 6 kernel 3 and padding 1, and the output channels are 64,
\* 192, 384, 256, 256.
C10_TablesComplete ==
    /\ pc # "KeyError"
    /\ (pc = "construct" /\ layeridx < 8 /\ layeridx \notin {1, 3, 7}) =>
          (layeridx \in DOMAIN oups /\ layeridx \in DOMAIN kp)
    /\ Constructed => (layeridx = 8 /\ Len(layers) = 8)
    /\ \A i \in 1..Len(layers) :
          IsConv(layers[i]) =>
              /\ layers[i].s = 1
              /\ i \in {1, 3} => (layers[i].k = 5 /\ layers[i].p = 2)
              /\ i \in {5, 6, 7} => (layers[i].k = 3 /\ layers[i].p = 1)
              /\ layers[i].oup =
                    CASE i = 1 -> 64 [] i = 3 -> 192 [] i = 5 -> 384
                      [] i = 6 -> 256 [] i = 7 -> 256

C10_Witness ==
    /\ pc = "ready"
    /\ layeridx = 8
    /\ features[1].oup = 64
    /\ features[1].k = 5
    /\ features[7].k = 3
    /\ features[7].oup = 256
====
